---- MODULE Spec2Model ----
(***************************************************************************)
(* Model of usbtest.c: a CDC-ACM client over libusb.  main() parses one    *)
(* file-descriptor argument, initialises libusb, wraps the descriptor,     *)
(* detaches kernel drivers and claims interfaces 0 and 1, sends the        *)
(* line-state and line-encoding control transfers, then loops forever      *)
(* writing one byte and reading up to 64 bytes.                            *)
(*                                                                         *)
(* Every library call is one step; its return value is chosen from the     *)
(* values the libusb documentation allows.  Each call and each print is    *)
(* appended to a log: `calls` for the set-up phase, `iter` for the         *)
(* current iteration of the transfer loop.                                 *)
(***************************************************************************)
EXTENDS Integers, Sequences, FiniteSets, TLC

VARIABLES pc, argc, argv1, fd, rc, devh, context, if_num, len, bufTerm,
          driver, calls, iter, nIter, exitCode

vars == <<pc, argc, argv1, fd, rc, devh, context, if_num, len, bufTerm,
          driver, calls, iter, nIter, exitCode>>

----------------------------------------------------------------------------
(* Bounds of the model *)

\* argv[1] is a string of at most MaxArgLen characters
MaxArgLen == 2
\* nIter counts loop iterations and saturates at MaxIter
MaxIter == 2

----------------------------------------------------------------------------
(* Program constants *)

ACM_CTRL_DTR == 1
ACM_CTRL_RTS == 2
ep_in_addr == 130
ep_out_addr == 2
\* read_chars(buf, 64)
ReadSize == 64
\* unsigned char buf[65]
BufLen == 65
\* timeout of the inbound bulk transfer, in ms
ReadTimeout == 1000
\* for (if_num = 0; if_num < 2; if_num++)
NumInterfaces == 2
\* a slip in the byte order: 115200 written most significant byte first
encoding_big_endian == <<0, 1, 194, 0, 0, 0, 8>>

\* unsigned char encoding[] = { 0x00, 0xC2, 0x01, 0x00, 0x00, 0x00, 0x08 }
encoding == <<0, 194, 1, 0, 0, 0, 8>>

LIBUSB_SUCCESS == 0
LIBUSB_ERROR_TIMEOUT == -7
LIBUSB_ERROR_IO == -1
\* the negative codes a libusb call is tried with
ErrCodes == {LIBUSB_ERROR_IO, LIBUSB_ERROR_TIMEOUT}
LIBUSB_ERROR_NOT_SUPPORTED == -12
\* the negative code the two kernel-driver calls are tried with
DriverErrCodes == {LIBUSB_ERROR_NOT_SUPPORTED}

\* the argument counts main is started with: no argv[0], no argument, one argument
ArgCounts == {0, 1, 2}

\* the byte counts a bulk read is tried with: none, one, all but one, all
TransferLens == {0, 1, ReadSize - 1, ReadSize}

\* sscanf's return value when the input ends before the first conversion
EOF == -1

\* the characters argv[1] is built from: a digit, a sign, a blank, a letter
Chars == {"7", "-", " ", "x"}

RECURSIVE StringsUpTo(_)
StringsUpTo(n) ==
    IF n = 0 THEN {<<>>}
    ELSE LET shorter == StringsUpTo(n - 1)
         IN shorter \cup {Append(s, c) : s \in shorter, c \in Chars}

----------------------------------------------------------------------------
(* Pure helpers *)

\* the C operator | on non-negative integers
RECURSIVE BitOr(_, _)
BitOr(a, b) ==
    IF a = 0 THEN b
    ELSE IF b = 0 THEN a
    ELSE (IF a % 2 = 1 \/ b % 2 = 1 THEN 1 ELSE 0) + 2 * BitOr(a \div 2, b \div 2)

IsSpace(c) == c = " "
IsDigit(c) == c \in {"0", "1", "2", "3", "4", "5", "6", "7", "8", "9"}
DigitVal(c) ==
    CASE c = "0" -> 0 [] c = "1" -> 1 [] c = "2" -> 2 [] c = "3" -> 3
      [] c = "4" -> 4 [] c = "5" -> 5 [] c = "6" -> 6 [] c = "7" -> 7
      [] c = "8" -> 8 [] c = "9" -> 9

RECURSIVE SkipSpace(_)
SkipSpace(s) ==
    IF s # <<>> /\ IsSpace(Head(s)) THEN SkipSpace(Tail(s)) ELSE s

RECURSIVE ParseDigits(_, _, _)
ParseDigits(s, acc, count) ==
    IF s # <<>> /\ IsDigit(Head(s))
    THEN ParseDigits(Tail(s), 10 * acc + DigitVal(Head(s)), count + 1)
    ELSE [acc |-> acc, count |-> count]

\* sscanf(s, "%d", &fd): skip blanks, take an optional sign, then the longest
\* run of digits.  n is the return value, val the integer stored on success.
sscanf_d(s) ==
    LET t == SkipSpace(s)
        signed == t # <<>> /\ Head(t) \in {"-", "+"}
        neg == t # <<>> /\ Head(t) = "-"
        u == IF signed THEN Tail(t) ELSE t
        d == ParseDigits(u, 0, 0)
    IN  IF d.count > 0
        THEN [n |-> 1, val |-> IF neg THEN 0 - d.acc ELSE d.acc]
        ELSE [n |-> IF u = <<>> THEN EOF ELSE 0, val |-> 0]

\* the status a parent sees for exit(code) / return code: the low 8 bits
ExitStatus(code) == code % 256

\* one entry of a log: a call, its arguments and what it returned
Call(fn, args, ret) == [fn |-> fn, args |-> args, ret |-> ret]

\* the positions of log s whose entry was made by a function in fns
Positions(s, fns) == {i \in 1..Len(s) : s[i].fn \in fns}

----------------------------------------------------------------------------
(* Initial state: the process image at entry to main *)

Init ==
    /\ pc = "main"
    /\ argc \in ArgCounts
    /\ argv1 \in IF argc >= 2 THEN StringsUpTo(MaxArgLen) ELSE {<<>>}
    /\ fd = 0
    /\ rc = 0
    /\ devh = FALSE
    /\ context = FALSE
    /\ if_num = 0
    /\ len = 0
    /\ bufTerm = -1
    /\ driver \in [0..(NumInterfaces - 1) -> BOOLEAN]
    /\ calls = <<>>
    /\ iter = <<>>
    /\ nIter = 0
    /\ exitCode = 0

----------------------------------------------------------------------------
(* Steps of main *)

\* exit(code), or return code from main
Exit(code) ==
    /\ pc' = "exited"
    /\ exitCode' = code

\* the process is killed by a signal; it has no exit code
Crash ==
    /\ pc' = "crashed"
    /\ exitCode' = exitCode

\* printf("usage: %s <fd>", argv[0]); exit(1);
Usage ==
    /\ calls' = Append(calls, Call("printf", <<"usage">>, 0))
    /\ Exit(1)

\* if ((argc < 1) || (sscanf(argv[1], "%d", &fd) != 1)) { usage; exit(1); }
\* With argc = 0 the usage line formats argv[0] = NULL with %s; with argc = 1
\* sscanf reads from argv[1] = NULL.  Both are undefined: the call either
\* faults or treats the null pointer as empty input.
check_args ==
    /\ pc = "main"
    /\ \/ /\ argc < 1
          /\ \/ Usage
             \/ Crash /\ calls' = calls
          /\ fd' = fd
       \/ /\ argc = 1
          /\ \/ Usage
             \/ Crash /\ calls' = calls
          /\ fd' = fd
       \/ /\ argc > 1
          /\ sscanf_d(argv1).n # 1
          /\ Usage
          /\ fd' = fd
       \/ /\ argc > 1
          /\ sscanf_d(argv1).n = 1
          /\ fd' = sscanf_d(argv1).val
          /\ pc' = "set_option"
          /\ UNCHANGED <<calls, exitCode>>
    /\ UNCHANGED <<argc, argv1, rc, devh, context, if_num, len, bufTerm,
                   driver, iter, nIter>>

\* rc = libusb_set_option(NULL, LIBUSB_OPTION_WEAK_AUTHORITY);
\* if (rc < 0) { fprintf(stderr, ...); exit(1); }
set_option ==
    /\ pc = "set_option"
    /\ \E r \in {LIBUSB_SUCCESS} \cup ErrCodes :
          /\ rc' = r
          /\ IF r < 0
             THEN /\ calls' = calls \o <<Call("libusb_set_option", <<>>, r),
                                         Call("fprintf", <<"Error setting libusb option">>, 0)>>
                  /\ Exit(1)
             ELSE /\ calls' = Append(calls, Call("libusb_set_option", <<>>, r))
                  /\ pc' = "init"
                  /\ exitCode' = exitCode
    /\ UNCHANGED <<argc, argv1, fd, devh, context, if_num, len, bufTerm,
                   driver, iter, nIter>>

\* rc = libusb_init(&context);
\* if (rc < 0) { fprintf(stderr, ...); exit(1); }
init ==
    /\ pc = "init"
    /\ \E r \in {LIBUSB_SUCCESS} \cup ErrCodes :
          /\ rc' = r
          /\ IF r < 0
             THEN /\ calls' = calls \o <<Call("libusb_init", <<>>, r),
                                         Call("fprintf", <<"Error initializing libusb">>, 0)>>
                  /\ context' = context
                  /\ Exit(1)
             ELSE /\ calls' = Append(calls, Call("libusb_init", <<>>, r))
                  /\ context' = TRUE
                  /\ pc' = "wrap"
                  /\ exitCode' = exitCode
    /\ UNCHANGED <<argc, argv1, fd, devh, if_num, len, bufTerm,
                   driver, iter, nIter>>

\* rc = libusb_wrap_sys_device(context, (intptr_t) fd, &devh);
\* if (rc < 0) { fprintf(stderr, ...); goto out; }
wrap_sys_device ==
    /\ pc = "wrap"
    /\ \E r \in {LIBUSB_SUCCESS} \cup ErrCodes :
          /\ rc' = r
          /\ IF r < 0
             THEN /\ calls' = calls \o <<Call("libusb_wrap_sys_device", <<fd>>, r),
                                         Call("fprintf", <<"Error wrapping file descriptor">>, 0)>>
                  /\ devh' = devh
                  /\ pc' = "out"
             ELSE /\ calls' = Append(calls, Call("libusb_wrap_sys_device", <<fd>>, r))
                  /\ devh' = TRUE
                  /\ pc' = "driver_active"
    /\ if_num' = 0
    /\ UNCHANGED <<argc, argv1, fd, context, len, bufTerm,
                   driver, iter, nIter, exitCode>>

\* if (libusb_kernel_driver_active(devh, if_num)) { ...detach... }
\* The call returns 1 when a kernel driver is attached, 0 when none is, or a
\* negative error code; any non-zero value takes the branch.
kernel_driver_active ==
    /\ pc = "driver_active"
    /\ \E r \in {IF driver[if_num] THEN 1 ELSE 0} \cup DriverErrCodes :
          /\ calls' = Append(calls, Call("libusb_kernel_driver_active", <<if_num>>, r))
          /\ pc' = IF r # 0 THEN "detach" ELSE "claim"
    /\ UNCHANGED <<argc, argv1, fd, rc, devh, context, if_num, len, bufTerm,
                   driver, iter, nIter, exitCode>>

\* libusb_detach_kernel_driver(devh, if_num);   (result not looked at)
\* It can succeed only when a driver is attached.
detach_kernel_driver ==
    /\ pc = "detach"
    /\ \E r \in (IF driver[if_num] THEN {LIBUSB_SUCCESS} ELSE {}) \cup DriverErrCodes :
          /\ calls' = Append(calls, Call("libusb_detach_kernel_driver", <<if_num>>, r))
          /\ driver' = IF r = LIBUSB_SUCCESS
                       THEN [driver EXCEPT ![if_num] = FALSE]
                       ELSE driver
    /\ pc' = "claim"
    /\ UNCHANGED <<argc, argv1, fd, rc, devh, context, if_num, len, bufTerm,
                   iter, nIter, exitCode>>

\* a slip: the result of the claim is printed but the goto out is missing
claim_interface_unchecked ==
    /\ pc = "claim"
    /\ \E r \in {LIBUSB_SUCCESS} \cup ErrCodes :
          /\ rc' = r
          /\ calls' = IF r < 0
                      THEN calls \o <<Call("libusb_claim_interface", <<if_num>>, r),
                                      Call("fprintf", <<"Error claiming interface">>, 0)>>
                      ELSE Append(calls, Call("libusb_claim_interface", <<if_num>>, r))
          /\ if_num' = if_num + 1
          /\ pc' = IF if_num + 1 < NumInterfaces THEN "driver_active" ELSE "line_state"
    /\ UNCHANGED <<argc, argv1, fd, devh, context, len, bufTerm,
                   driver, iter, nIter, exitCode>>

\* rc = libusb_claim_interface(devh, if_num);
\* if (rc < 0) { fprintf(stderr, ...); goto out; }
\* then if_num++ and the loop test if_num < 2
claim_interface ==
    /\ pc = "claim"
    /\ \E r \in {LIBUSB_SUCCESS} \cup ErrCodes :
          /\ rc' = r
          /\ IF r < 0
             THEN /\ calls' = calls \o <<Call("libusb_claim_interface", <<if_num>>, r),
                                         Call("fprintf", <<"Error claiming interface">>, 0)>>
                  /\ if_num' = if_num
                  /\ pc' = "out"
             ELSE /\ calls' = Append(calls, Call("libusb_claim_interface", <<if_num>>, r))
                  /\ if_num' = if_num + 1
                  /\ pc' = IF if_num + 1 < NumInterfaces
                           THEN "driver_active" ELSE "line_state"
    /\ UNCHANGED <<argc, argv1, fd, devh, context, len, bufTerm,
                   driver, iter, nIter, exitCode>>

\* rc = libusb_control_transfer(devh, 0x21, 0x22, ACM_CTRL_DTR | ACM_CTRL_RTS,
\*                              0, NULL, 0, 0);
\* if (rc < 0) { fprintf(stderr, ...); goto out; }
set_line_state ==
    /\ pc = "line_state"
    /\ \E r \in {0} \cup ErrCodes :
          /\ rc' = r
          /\ LET c == Call("libusb_control_transfer",
                           <<33, 34, BitOr(ACM_CTRL_DTR, ACM_CTRL_RTS), 0, <<>>, 0, 0>>, r)
             IN IF r < 0
                THEN /\ calls' = calls \o <<c, Call("fprintf", <<"Error during control transfer">>, 0)>>
                     /\ pc' = "out"
                ELSE /\ calls' = Append(calls, c)
                     /\ pc' = "line_encoding"
    /\ UNCHANGED <<argc, argv1, fd, devh, context, if_num, len, bufTerm,
                   driver, iter, nIter, exitCode>>

\* rc = libusb_control_transfer(devh, 0x21, 0x20, 0, 0, encoding,
\*                              sizeof(encoding), 0);
\* if (rc < 0) { fprintf(stderr, ...); goto out; }
\* On success the call returns the number of bytes transferred.
set_line_encoding ==
    /\ pc = "line_encoding"
    /\ \E r \in {Len(encoding)} \cup ErrCodes :
          /\ rc' = r
          /\ LET c == Call("libusb_control_transfer",
                           <<33, 32, 0, 0, encoding, Len(encoding), 0>>, r)
             IN IF r < 0
                THEN /\ calls' = calls \o <<c, Call("fprintf", <<"Error during control transfer">>, 0)>>
                     /\ pc' = "out"
                ELSE /\ calls' = Append(calls, c)
                     /\ pc' = "write"
    /\ UNCHANGED <<argc, argv1, fd, devh, context, if_num, len, bufTerm,
                   driver, iter, nIter, exitCode>>

----------------------------------------------------------------------------
(* The transfer loop: while(1) { write_char; read_chars; buf[len] = 0;     *)
(* fprintf; sleep; }                                                       *)

\* write_char('t'):
\* if (libusb_bulk_transfer(devh, ep_out_addr, &c, 1, &actual_length, 0) < 0)
\*     fprintf(stderr, "Error while sending char\n");
\* The step starts a new iteration, so it starts a new iteration log.
write_char ==
    /\ pc = "write"
    /\ \E r \in {LIBUSB_SUCCESS} \cup ErrCodes :
          LET c == Call("libusb_bulk_transfer", <<ep_out_addr, 1, 0, "t">>, r)
          IN  iter' = IF r < 0
                      THEN <<c, Call("fprintf", <<"Error while sending char">>, 0)>>
                      ELSE <<c>>
    /\ nIter' = IF nIter < MaxIter THEN nIter + 1 ELSE nIter
    /\ pc' = "read"
    /\ UNCHANGED <<argc, argv1, fd, rc, devh, context, if_num, len, bufTerm,
                   driver, calls, exitCode>>

\* len = read_chars(buf, 64):
\* rc = libusb_bulk_transfer(devh, ep_in_addr, data, size, &actual_length, 1000);
\* if (rc == LIBUSB_ERROR_TIMEOUT) { printf("timeout (%d)\n", ...); return -1; }
\* else if (rc < 0) { fprintf(stderr, ...); return -1; }
\* return actual_length;
\* The transfer stores n <= size bytes at buf[0..n-1], also when it then times
\* out or fails; a terminator kept from an earlier iteration survives only at
\* an index >= n.
read_chars ==
    /\ pc = "read"
    /\ \E r \in {LIBUSB_SUCCESS} \cup ErrCodes, n \in TransferLens :
          LET c == Call("libusb_bulk_transfer", <<ep_in_addr, ReadSize, ReadTimeout, n>>, r)
          IN  /\ bufTerm' = IF bufTerm >= n THEN bufTerm ELSE -1
              /\ IF r = LIBUSB_ERROR_TIMEOUT
                 THEN /\ iter' = iter \o <<c, Call("printf", <<"timeout">>, 0)>>
                      /\ len' = -1
                 ELSE IF r < 0
                 THEN /\ iter' = iter \o <<c, Call("fprintf", <<"Error while waiting for char">>, 0)>>
                      /\ len' = -1
                 ELSE /\ iter' = Append(iter, c)
                      /\ len' = n
    /\ pc' = "terminate"
    /\ UNCHANGED <<argc, argv1, fd, rc, devh, context, if_num,
                   driver, calls, nIter, exitCode>>

\* buf[len] = 0;   with unsigned char buf[65]
\* An index outside 0..64 is a store outside buf: the byte lands next to the
\* array and the loop goes on, or an instrumented build traps.
terminate_buf ==
    /\ pc = "terminate"
    /\ iter' = Append(iter, Call("store_zero", <<len>>, 0))
    /\ IF 0 <= len /\ len < BufLen
       THEN /\ bufTerm' = len
            /\ pc' = "print"
            /\ exitCode' = exitCode
       ELSE /\ bufTerm' = bufTerm
            /\ \/ pc' = "print" /\ exitCode' = exitCode
               \/ Crash
    /\ UNCHANGED <<argc, argv1, fd, rc, devh, context, if_num, len,
                   driver, calls, nIter>>

\* fprintf(stdout, "Received: \"%s\"\n", buf);
\* Without a zero byte inside buf, %s reads past the end of the array: the
\* line shows stray bytes, or the read faults.
print_received ==
    /\ pc = "print"
    /\ \/ /\ iter' = Append(iter, Call("fprintf", <<"Received">>, 0))
          /\ pc' = "sleep"
          /\ exitCode' = exitCode
       \/ /\ bufTerm = -1
          /\ iter' = iter
          /\ Crash
    /\ UNCHANGED <<argc, argv1, fd, rc, devh, context, if_num, len, bufTerm,
                   driver, calls, nIter>>

\* sleep(1);   and back to the head of while(1)
sleep_1 ==
    /\ pc = "sleep"
    /\ iter' = Append(iter, Call("sleep", <<1>>, 0))
    /\ pc' = "write"
    /\ UNCHANGED <<argc, argv1, fd, rc, devh, context, if_num, len, bufTerm,
                   driver, calls, nIter, exitCode>>

\* a slip: the clean-up ends with return 0
out_returns_zero ==
    /\ pc = "out"
    /\ calls' = calls \o (IF devh THEN <<Call("libusb_close", <<>>, 0)>> ELSE <<>>)
                      \o <<Call("libusb_exit", <<>>, 0)>>
    /\ Exit(0)
    /\ UNCHANGED <<argc, argv1, fd, rc, devh, context, if_num, len, bufTerm,
                   driver, iter, nIter>>

\* a slip: the clean-up closes the handle without the test of devh
out_close_unchecked ==
    /\ pc = "out"
    /\ calls' = calls \o <<Call("libusb_close", <<>>, 0), Call("libusb_exit", <<>>, 0)>>
    /\ Exit(rc)
    /\ UNCHANGED <<argc, argv1, fd, rc, devh, context, if_num, len, bufTerm,
                   driver, iter, nIter>>

\* out: if (devh) { libusb_close(devh); }  libusb_exit(context);  return rc;
out ==
    /\ pc = "out"
    /\ calls' = calls \o (IF devh THEN <<Call("libusb_close", <<>>, 0)>> ELSE <<>>)
                      \o <<Call("libusb_exit", <<>>, 0)>>
    /\ Exit(rc)
    /\ UNCHANGED <<argc, argv1, fd, rc, devh, context, if_num, len, bufTerm,
                   driver, iter, nIter>>

Next ==
    \/ check_args
    \/ set_option
    \/ init
    \/ wrap_sys_device
    \/ kernel_driver_active
    \/ detach_kernel_driver
    \/ claim_interface
    \/ set_line_state
    \/ set_line_encoding
    \/ write_char
    \/ read_chars
    \/ terminate_buf
    \/ print_received
    \/ sleep_1
    \/ out

Spec == Init /\ [][Next]_vars

TypeOK ==
    /\ pc \in {"main", "set_option", "init", "wrap", "driver_active", "detach",
               "claim", "line_state", "line_encoding", "write", "read",
               "terminate", "print", "sleep", "out", "exited", "crashed"}
    /\ argc \in ArgCounts
    /\ devh \in BOOLEAN
    /\ context \in BOOLEAN
    /\ if_num \in 0..NumInterfaces
    /\ len \in -1..ReadSize
    /\ bufTerm \in -1..(BufLen - 1)
    /\ nIter \in 0..MaxIter

----------------------------------------------------------------------------
(* Vocabulary of the properties *)

\* the positions of the transfer loop
LoopPcs == {"write", "read", "terminate", "print", "sleep"}

\* the calls that set the device up, from wrapping to the control transfers
SetupFns == {"libusb_wrap_sys_device", "libusb_kernel_driver_active",
             "libusb_detach_kernel_driver", "libusb_claim_interface",
             "libusb_control_transfer"}

\* the set-up steps whose result main checks before going on
CheckedFns == {"libusb_wrap_sys_device", "libusb_claim_interface",
               "libusb_control_transfer"}

\* the library calls made before the device is wrapped
InitFns == {"libusb_set_option", "libusb_init"}

Failed(s, fns) == {i \in Positions(s, fns) : s[i].ret < 0}

\* the argument is there but sscanf finds no integer in it
Unparseable == argc > 1 /\ sscanf_d(argv1).n # 1

\* the file-descriptor argument is absent
Absent == argc = 1

UsageLine == Call("printf", <<"usage">>, 0)

\* n as four bytes, least significant first
LE32(n) == <<n % 256, (n \div 256) % 256, (n \div 65536) % 256,
             (n \div 16777216) % 256>>

\* the control transfers of the log that carry request 0x20 (set line encoding)
EncodingTransfers ==
    {i \in Positions(calls, {"libusb_control_transfer"}) : calls[i].args[2] = 32}

\* the inbound bulk transfer of the current iteration, if it was made
InboundReads ==
    {i \in Positions(iter, {"libusb_bulk_transfer"}) : iter[i].args[1] = ep_in_addr}

\* the current iteration's read timed out and the iteration is not over
TimedOut ==
    /\ pc \in {"terminate", "print", "sleep"}
    /\ \E i \in InboundReads : iter[i].ret = LIBUSB_ERROR_TIMEOUT

\* the transfers, the print of the data and the delay of log s, in order
RECURSIVE Shape(_)
Shape(s) ==
    IF s = <<>> THEN <<>>
    ELSE LET e == Head(s)
             keep == \/ e.fn \in {"libusb_bulk_transfer", "sleep"}
                     \/ e.fn = "fprintf" /\ e.args = <<"Received">>
         IN (IF keep THEN <<[fn |-> e.fn, args |-> SubSeq(e.args, 1, Len(e.args) - (IF e.fn = "libusb_bulk_transfer" THEN 1 ELSE 0))]>> ELSE <<>>)
            \o Shape(Tail(s))

\* what one full iteration does: write 't' (1 byte, endpoint 0x02, no
\* timeout), read up to 64 bytes (endpoint 0x82, 1000 ms), print, sleep 1 s
FullIteration ==
    << [fn |-> "libusb_bulk_transfer", args |-> <<2, 1, 0>>],
       [fn |-> "libusb_bulk_transfer", args |-> <<130, 64, 1000>>],
       [fn |-> "fprintf", args |-> <<"Received">>],
       [fn |-> "sleep", args |-> <<1>>] >>

----------------------------------------------------------------------------
(* Properties *)

\* C1: when the file-descriptor argument is absent (argc = 1) or cannot be
\* parsed as a decimal integer, the program prints the usage line and exits
\* with status 1, and has made no USB library call.
C1_UsageOnBadArgument ==
    (Absent \/ Unparseable) /\ pc # "main" =>
        /\ pc = "exited"
        /\ ExitStatus(exitCode) = 1
        /\ calls = <<UsageLine>>
        /\ iter = <<>>

\* The part of C1 that the code keeps: an argument that is present and
\* unparseable gives the usage line, status 1 and no USB call.
C1_UnparseableArgument ==
    Unparseable /\ pc # "main" =>
        /\ pc = "exited"
        /\ ExitStatus(exitCode) = 1
        /\ calls = <<UsageLine>>
        /\ iter = <<>>

\* C2: when wrap, a claim of interface 0 or 1, the line-state or the
\* line-encoding control transfer returns a negative result, no later set-up
\* step and no bulk transfer is made, and the process exits with a non-zero
\* status.
C2_SetupFailureGating ==
    \A i \in Failed(calls, CheckedFns) :
        /\ \A j \in (i + 1)..Len(calls) : calls[j].fn \notin SetupFns
        /\ iter = <<>>
        /\ nIter = 0
        /\ pc \in {"out", "exited"}
        /\ pc = "exited" => ExitStatus(exitCode) # 0

\* C2 witness: interface 0 was claimed, the claim of interface 1 failed and
\* the process has exited.
C2_Witness ==
    /\ pc = "exited"
    /\ \E i \in Failed(calls, {"libusb_claim_interface"}) : calls[i].args = <<1>>

\* C3 as stated: whenever libusb_set_option, libusb_init, wrap, a claim or a
\* control transfer fails with code rc, the process goes through the clean-up
\* and exits with rc; no execution exits with 0.
C3_Original ==
    pc = "exited" =>
        /\ exitCode # 0
        /\ \A i \in Failed(calls, InitFns \cup CheckedFns) :
              /\ Positions(calls, {"libusb_exit"}) # {}
              /\ exitCode = calls[i].ret

\* C3 amended: a failure of wrap, a claim or a control transfer with code rc
\* goes through the clean-up and main returns rc; a failure of
\* libusb_set_option or libusb_init exits at once with 1, without the
\* clean-up; no execution exits with 0.
C3_ExitCodes ==
    pc = "exited" =>
        /\ exitCode # 0
        /\ ExitStatus(exitCode) # 0
        /\ \A i \in Failed(calls, CheckedFns) :
              /\ Positions(calls, {"libusb_exit"}) # {}
              /\ exitCode = calls[i].ret
        /\ \A i \in Failed(calls, InitFns) :
              /\ Positions(calls, {"libusb_exit", "libusb_close"}) = {}
              /\ exitCode = 1

\* C3 witness: the line-encoding transfer timed out and main returned that code.
C3_Witness ==
    /\ pc = "exited"
    /\ exitCode = LIBUSB_ERROR_TIMEOUT
    /\ \E i \in EncodingTransfers : calls[i].ret = LIBUSB_ERROR_TIMEOUT

\* C4: when the inbound transfer returns LIBUSB_ERROR_TIMEOUT, the timeout
\* line is printed, the process does not end, and the loop goes on towards
\* the next write.
C4_TimeoutContinues ==
    [][TimedOut =>
         /\ \E i \in 1..Len(iter) : iter[i] = Call("printf", <<"timeout">>, 0)
         /\ pc' \in {"print", "sleep", "write"}]_vars

\* C5: every iteration does one write of 't', then one read of up to 64
\* bytes, then the print, then the one-second delay, in that order, and the
\* next iteration follows.
C5_IterationShape ==
    [][/\ pc = "write" => pc' = "read"
       /\ pc = "read" => pc' = "terminate"
       /\ pc = "terminate" => pc' = "print"
       /\ pc = "print" => pc' = "sleep"
       /\ pc = "sleep" => pc' = "write" /\ Shape(iter') = FullIteration]_vars

\* C6: the line-encoding control transfer (0x21, 0x20, 0, 0) carries the 7
\* bytes [115200 little-endian][0][0][8] and is made at most once.
C6_LineEncodingPayload ==
    /\ Cardinality(EncodingTransfers) <= 1
    /\ \A i \in EncodingTransfers :
          calls[i].args = <<33, 32, 0, 0, LE32(115200) \o <<0, 0, 8>>, 7, 0>>

\* C6 witness: the line-encoding transfer was made.
C6_Witness == EncodingTransfers # {}

\* C7: once the first bulk transfer was made, no set-up call is made again
\* and the process stays in the loop whatever the transfers return.
C7_ForwardOnly ==
    [][nIter > 0 => calls' = calls /\ pc' \in LoopPcs]_vars

C9_ResourceRelease ==
    /\ Positions(calls, {"libusb_release_interface"}) = {}
    /\ Positions(iter, {"libusb_release_interface", "libusb_close", "libusb_exit"}) = {}
    /\ Cardinality(Positions(calls, {"libusb_close"})) <= 1
    /\ \A i \in Positions(calls, {"libusb_close"}) :
          /\ devh
          /\ nIter = 0
          /\ Failed(calls, {"libusb_wrap_sys_device"}) = {}
          /\ \E j \in 1..(i - 1) : calls[j] = Call("libusb_wrap_sys_device", <<fd>>, 0)
          /\ \E j \in Failed(calls, CheckedFns) : j < i
          /\ \A j \in Positions(calls, {"libusb_exit"}) : i < j

\* C9 witness: interface 0 was claimed, a later step failed and the handle
\* was closed on the way out.
C9_Witness ==
    /\ pc = "exited"
    /\ Positions(calls, {"libusb_close"}) # {}
    /\ \E j \in 1..Len(calls) : calls[j] = Call("libusb_claim_interface", <<0>>, 0)

\* C10: the index at which main stores the terminating zero lies in 0..64,
\* inside the 65 bytes of buf, whatever the read returned.
C10_TerminatorInBounds ==
    pc = "terminate" => 0 <= len /\ len <= 64

====
